---- MODULE Spec2Model ----
(***************************************************************************)
(* Model of the dikc-detector crate (src/src/lib.rs): check() runs         *)
(* check_posix() and check_machine() against two sysctl values and         *)
(* aggregates their errors.                                                *)
(*                                                                         *)
(* Strings the code inspects character by character (the OS version) are   *)
(* sequences of one-character strings; strings the code only compares for  *)
(* equality (the hardware model) are TLA+ strings.                         *)
(***************************************************************************)
EXTENDS Integers, Sequences, FiniteSets, TLC

VARIABLES pc, sys_ver, sys_model, queries, posix_ret, machine_ret, errs, ret

vars == <<pc, sys_ver, sys_model, queries, posix_ret, machine_ret, errs, ret>>

(***************************************************************************)
(* Bounds and input alphabets                                              *)
(***************************************************************************)

\* longest version string enumerated exhaustively over VersionChars
MaxLen == 6

\* characters of the exhaustively enumerated version strings: digits that
\* build 1, 3, 4, 11, 13, 14, 31, ..., a non-digit, and the separator
VersionChars == {"1", "3", "4", "x", "."}

Digits == {"0", "1", "2", "3", "4", "5", "6", "7", "8", "9"}

DigitVal(c) ==
    CASE c = "0" -> 0 [] c = "1" -> 1 [] c = "2" -> 2 [] c = "3" -> 3
      [] c = "4" -> 4 [] c = "5" -> 5 [] c = "6" -> 6 [] c = "7" -> 7
      [] c = "8" -> 8 [] c = "9" -> 9

\* usize::MAX = 2^64 - 1 on the 64-bit targets of macOS, as decimal digits
USIZE_MAX == <<"1","8","4","4","6","7","4","4","0","7",
               "3","7","0","9","5","5","1","6","1","5">>

\* usize::MAX + 1, the smallest digit string that overflows the parse
USIZE_MAX_PLUS_1 == <<"1","8","4","4","6","7","4","4","0","7",
                      "3","7","0","9","5","5","1","6","1","6">>

BoundedStrings == UNION {[1..n -> VersionChars] : n \in 0..MaxLen}

\* version strings outside VersionChars: zeros, a sign, 5 and 10, and the
\* edge of the usize range
ExtraVersionStrings ==
    { <<"1","4",".","0">>, <<"1","4",".","1","0">>, <<"1","5",".","0">>,
      <<"0">>, <<"0","1","4",".","0","3">>, <<"0","1","4",".","0","4">>,
      <<"+","1","4",".","3">>, <<"+","1","4",".","+","4">>, <<"+">>,
      <<"-","1">>, <<"1","4",".","-","1">>, <<"-">>,
      USIZE_MAX, USIZE_MAX_PLUS_1,
      USIZE_MAX \o <<".","x">>, USIZE_MAX_PLUS_1 \o <<".","0">>,
      <<"1","4",".">> \o USIZE_MAX, <<"1","4",".">> \o USIZE_MAX_PLUS_1,
      <<"0">> \o USIZE_MAX_PLUS_1, <<"0","0">> \o USIZE_MAX }

VersionStrings == BoundedStrings \cup ExtraVersionStrings

\* hardware model identifiers the system may report
ModelStrings ==
    { "MacBookPro16,1", "MacBookPro16.1", "MacBookPro16,2", "MacBookPro16,",
      "macbookpro16,1", "MacBookPro16,1 ", "MacBookPro17,1", "" }

\* system-level errors of the sysctl crate
SysctlErrors == {"NotFound", "IoError"}

(***************************************************************************)
(* Error and Result                                                        *)
(***************************************************************************)

NotPosix == [tag |-> "NotPosix"]
BadMacModel == [tag |-> "BadMacModel"]
ParseOsVersion == [tag |-> "ParseOsVersion"]
Sysctl(e) == [tag |-> "Sysctl", err |-> e]
Many(es) == [tag |-> "Many", errs |-> es]

Ok == [tag |-> "Ok"]
Err(e) == [tag |-> "Err", err |-> e]
None == [tag |-> "None"]

HW_MODEL == "hw.model"
KERN_OSPRODUCTVERSION == "kern.osproductversion"
\* the denylisted identifier written with a period
PULP_MACHINE_period == "MacBookPro16.1"

\* Very bad machine.
PULP_MACHINE == "MacBookPro16,1"

(***************************************************************************)
(* The OS configuration interface: what a query of a name may produce.     *)
(* Ctl::new may fail, value_string may fail, or a string comes back.       *)
(***************************************************************************)

NotQueried == [kind |-> "NotQueried"]
NewFailed(e) == [kind |-> "NewFailed", err |-> e]
ValueFailed(e) == [kind |-> "ValueFailed", err |-> e]
Value(s) == [kind |-> "Value", val |-> s]

QueryOutcomes(strings) ==
    {Value(s) : s \in strings}
      \cup {NewFailed(e) : e \in SysctlErrors}
      \cup {ValueFailed(e) : e \in SysctlErrors}

(***************************************************************************)
(* str::split('.') : the substrings between the separators, in order.      *)
(* A string without a separator (the empty string included) yields itself  *)
(* as its only item.                                                       *)
(***************************************************************************)

RECURSIVE split(_)
split(s) ==
    IF \A i \in 1..Len(s) : s[i] # "."
    THEN <<s>>
    ELSE LET d == CHOOSE i \in 1..Len(s) :
                      s[i] = "." /\ \A j \in 1..(i - 1) : s[j] # "."
         IN  <<SubSeq(s, 1, d - 1)>> \o split(SubSeq(s, d + 1, Len(s)))

(***************************************************************************)
(* str::parse::<usize>() : an optional leading '+', then one or more       *)
(* decimal digits, accumulated with overflow checks against usize::MAX.    *)
(* A parsed value is kept as its decimal digits without leading zeros      *)
(* (<<>> is zero), since a 64-bit value does not fit the checker's         *)
(* integers.                                                               *)
(***************************************************************************)

RECURSIVE strip_zeros(_)
strip_zeros(ds) ==
    IF ds # <<>> /\ Head(ds) = "0" THEN strip_zeros(Tail(ds)) ELSE ds

\* n > usize::MAX, for digit sequences without leading zeros
exceeds_usize_max(n) ==
    \/ Len(n) > Len(USIZE_MAX)
    \/ /\ Len(n) = Len(USIZE_MAX)
       /\ \E i \in 1..Len(n) :
            /\ DigitVal(n[i]) > DigitVal(USIZE_MAX[i])
            /\ \A j \in 1..(i - 1) : n[j] = USIZE_MAX[j]

ParseIntError == [ok |-> FALSE]
Parsed(n) == [ok |-> TRUE, val |-> n]

\* a parse that skips what is not a digit instead of rejecting it
parse_usize_lenient(s) ==
    Parsed(strip_zeros(SelectSeq(s, LAMBDA c : c \in Digits)))

parse_usize(s) ==
    IF s = <<>>
    THEN ParseIntError
    ELSE LET digits == IF Head(s) = "+" THEN Tail(s) ELSE s
         IN  IF digits = <<>> \/ \E i \in 1..Len(digits) : digits[i] \notin Digits
             THEN ParseIntError
             ELSE LET n == strip_zeros(digits)
                  IN  IF exceeds_usize_max(n) THEN ParseIntError ELSE Parsed(n)

RECURSIVE usize_value(_)
usize_value(n) ==
    IF n = <<>> THEN 0
    ELSE 10 * usize_value(SubSeq(n, 1, Len(n) - 1)) + DigitVal(n[Len(n)])

\* the range pattern ..=k and the literal pattern k, for k below 100
matches_to_inclusive(n, k) == Len(n) <= 2 /\ usize_value(n) <= k
matches_literal(n, k) == Len(n) <= 2 /\ usize_value(n) = k

(***************************************************************************)
(* check_posix                                                             *)
(***************************************************************************)

\* ..13 in place of ..=13
major_passes_exclusive(n) == Len(n) <= 2 /\ usize_value(n) < 13

\* first arm of the match on the major component: ..=13
major_passes(n) == matches_to_inclusive(n, 13)

\* second arm of the match on the major component: 14
major_is_sonoma(n) == matches_literal(n, 14)

\* the minor component compared as text with "3"
minor_passes_lexical(n) == n = <<>> \/ DigitVal(n[1]) < 3 \/ n = <<"3">>

\* the pattern of the if-let on the minor component: ..=3
minor_passes(n) == matches_to_inclusive(n, 3)

\* the for loop over the split components, from the component it is at
RECURSIVE check_posix_loop(_, _)
check_posix_loop(ver_split, is_sonoma) ==
    IF ver_split = <<>>
    THEN Err(ParseOsVersion)
    ELSE LET num == parse_usize(Head(ver_split))
         IN  IF ~is_sonoma
             THEN IF ~num.ok THEN Err(ParseOsVersion)
                  ELSE IF major_passes(num.val) THEN Ok
                  ELSE IF major_is_sonoma(num.val)
                       THEN check_posix_loop(Tail(ver_split), TRUE)
                  ELSE Err(NotPosix)
             ELSE IF ~num.ok THEN Err(ParseOsVersion)
                  ELSE IF minor_passes(num.val) THEN Ok
                  ELSE Err(NotPosix)

\* a failed query reported as an unparsable version
check_posix_masks_sysctl(outcome) ==
    IF outcome.kind \in {"NewFailed", "ValueFailed"}
    THEN Err(ParseOsVersion)
    ELSE check_posix_loop(split(outcome.val), FALSE)

\* check_posix, given what the query of kern.osproductversion produced
check_posix(outcome) ==
    IF outcome.kind \in {"NewFailed", "ValueFailed"}
    THEN Err(Sysctl(outcome.err))
    ELSE check_posix_loop(split(outcome.val), FALSE)

(***************************************************************************)
(* check_machine                                                           *)
(***************************************************************************)

\* check_machine, given what the query of hw.model produced
check_machine(outcome) ==
    IF outcome.kind \in {"NewFailed", "ValueFailed"}
    THEN Err(Sysctl(outcome.err))
    ELSE IF outcome.val = PULP_MACHINE THEN Err(BadMacModel) ELSE Ok

(***************************************************************************)
(* check                                                                   *)
(***************************************************************************)

\* Vec::pop : the last element, if any, and the vector without it
pop(v) ==
    IF v = <<>>
    THEN [item |-> None, rest |-> v]
    ELSE [item |-> [tag |-> "Some", val |-> v[Len(v)]],
          rest |-> SubSeq(v, 1, Len(v) - 1)]

\* every non-empty error list wrapped in Many
aggregate_always_many(es) ==
    IF es = <<>> THEN Ok ELSE Err(Many(es))

\* a single error dropped
aggregate_drops_single(es) ==
    IF Len(es) <= 1 THEN Ok ELSE Err(Many(SubSeq(es, 1, Len(es) - 1)))

\* the if / else-if / else that turns errs into the return value
aggregate(es) ==
    IF es = <<>>
    THEN Ok
    ELSE LET popped == pop(es)
             filtered == IF popped.item.tag = "Some" /\ popped.rest = <<>>
                         THEN popped.item
                         ELSE None
         IN  IF filtered.tag = "Some"
             THEN Err(filtered.val)
             ELSE Err(Many(popped.rest))

\* errs after `if let Err(err) = r { errs.push(err) }`
push_if_err(es, r) == IF r.tag = "Err" THEN Append(es, r.err) ELSE es

(***************************************************************************)
(* The state machine: one invocation of check(), a step per call it makes  *)
(***************************************************************************)

Init ==
    /\ pc = "check_posix"
    /\ sys_ver = NotQueried
    /\ sys_model = NotQueried
    /\ queries = <<>>
    /\ posix_ret = None
    /\ machine_ret = None
    /\ errs = <<>>
    /\ ret = None

\* let mut errs = Vec::with_capacity(2); if let Err(err) = check_posix() {..}
CallCheckPosix ==
    /\ pc = "check_posix"
    /\ \E outcome \in QueryOutcomes(VersionStrings) :
         /\ sys_ver' = outcome
         /\ queries' = Append(queries, KERN_OSPRODUCTVERSION)
         /\ posix_ret' = check_posix(outcome)
         /\ errs' = push_if_err(errs, check_posix(outcome))
    /\ pc' = "check_machine"
    /\ UNCHANGED <<sys_model, machine_ret, ret>>

\* check_machine() skipped once an error is recorded
CallCheckMachineShortCircuit ==
    /\ pc = "check_machine"
    /\ IF errs # <<>>
       THEN UNCHANGED <<sys_model, queries, machine_ret, errs>>
       ELSE \E outcome \in QueryOutcomes(ModelStrings) :
              /\ sys_model' = outcome
              /\ queries' = Append(queries, HW_MODEL)
              /\ machine_ret' = check_machine(outcome)
              /\ errs' = push_if_err(errs, check_machine(outcome))
    /\ pc' = "aggregate"
    /\ UNCHANGED <<sys_ver, posix_ret, ret>>

\* if let Err(err) = check_machine() {..}
CallCheckMachine ==
    /\ pc = "check_machine"
    /\ \E outcome \in QueryOutcomes(ModelStrings) :
         /\ sys_model' = outcome
         /\ queries' = Append(queries, HW_MODEL)
         /\ machine_ret' = check_machine(outcome)
         /\ errs' = push_if_err(errs, check_machine(outcome))
    /\ pc' = "aggregate"
    /\ UNCHANGED <<sys_ver, posix_ret, ret>>

\* the final if / else-if / else; errs is consumed by it
Return ==
    /\ pc = "aggregate"
    /\ ret' = aggregate(errs)
    /\ pc' = "done"
    /\ UNCHANGED <<sys_ver, sys_model, queries, posix_ret, machine_ret, errs>>

Next == CallCheckPosix \/ CallCheckMachine \/ Return

Spec == Init /\ [][Next]_vars

(***************************************************************************)
(* Vocabulary of the properties, stated on the text of the version string  *)
(* and not through split or parse_usize.                                   *)
(***************************************************************************)

\* the version string the system reported, once it reported one
VersionReported == pc # "check_posix" /\ sys_ver.kind = "Value"

DotIndexes(s) == {i \in 1..Len(s) : s[i] = "."}

ComponentCount(s) == Cardinality(DotIndexes(s)) + 1

\* index of the k-th separator; 0 and Len(s) + 1 stand for the two ends
DotIndex(s, k) ==
    IF k = 0 THEN 0
    ELSE IF k > Cardinality(DotIndexes(s)) THEN Len(s) + 1
    ELSE CHOOSE i \in DotIndexes(s) :
             Cardinality({j \in DotIndexes(s) : j < i}) = k - 1

\* the k-th dot-separated component, k in 1..ComponentCount(s)
ComponentAt(s, k) == SubSeq(s, DotIndex(s, k - 1) + 1, DotIndex(s, k) - 1)

Major == ComponentAt(sys_ver.val, 1)
Minor == ComponentAt(sys_ver.val, 2)
HasMinor == ComponentCount(sys_ver.val) >= 2

\* the digits of c after an optional '+' sign
Unsigned(c) == IF c # <<>> /\ c[1] = "+" THEN SubSeq(c, 2, Len(c)) ELSE c

\* the digits of c from its first non-zero digit on
Significant(c) ==
    LET u == Unsigned(c)
        z == Cardinality({k \in 1..Len(u) : \A i \in 1..k : u[i] = "0"})
    IN  SubSeq(u, z + 1, Len(u))

\* c is the text of a non-negative integer that a usize holds
IsIntegerText(c) ==
    LET u == Unsigned(c)
        g == Significant(c)
    IN  /\ u # <<>>
        /\ \A i \in 1..Len(u) : u[i] \in Digits
        /\ \/ Len(g) < Len(USIZE_MAX)
           \/ g = USIZE_MAX
           \/ /\ Len(g) = Len(USIZE_MAX)
              /\ \E i \in 1..Len(g) :
                   /\ DigitVal(g[i]) < DigitVal(USIZE_MAX[i])
                   /\ \A j \in 1..(i - 1) : g[j] = USIZE_MAX[j]

DigitOf(k) == CHOOSE c \in Digits : DigitVal(c) = k

\* the decimal digits of n, for n in 0..99 (no digit for 0)
Decimal(n) ==
    IF n = 0 THEN <<>>
    ELSE IF n < 10 THEN <<DigitOf(n)>>
    ELSE <<DigitOf(n \div 10), DigitOf(n % 10)>>

\* c is the text of the integer n
Denotes(c, n) == IsIntegerText(c) /\ Significant(c) = Decimal(n)

IntegerAtMost(c, k) == \E n \in 0..k : Denotes(c, n)
IntegerAbove(c, k) == IsIntegerText(c) /\ ~IntegerAtMost(c, k)

SysctlFailed(outcome) == outcome.kind \in {"NewFailed", "ValueFailed"}
IsSysctlErr(r) == r.tag = "Err" /\ r.err.tag = "Sysctl"
QueryCount(name) == Cardinality({i \in 1..Len(queries) : queries[i] = name})

(***************************************************************************)
(* Properties                                                              *)
(***************************************************************************)

\* C1: whenever both the version check and the machine check fail, check()
\* returns Many holding exactly the two errors, the version check's error
\* first and the machine check's error second.
C1_ManyHoldsBothErrors ==
    (pc = "done" /\ posix_ret.tag = "Err" /\ machine_ret.tag = "Err")
        => ret = Err(Many(<<posix_ret.err, machine_ret.err>>))

\* C2: whenever exactly one of the two sub-checks fails, check() returns
\* that sub-check's error itself, not wrapped in Many.
C2_SingleErrorUnwrapped ==
    pc = "done" =>
        /\ (posix_ret.tag = "Err" /\ machine_ret = Ok) => ret = posix_ret
        /\ (posix_ret = Ok /\ machine_ret.tag = "Err") => ret = machine_ret

C2_Witness ==
    /\ pc = "done"
    /\ posix_ret = Ok
    /\ machine_ret = Err(BadMacModel)
    /\ ret = Err(BadMacModel)

\* C3: check() returns success exactly when both sub-checks succeed, and an
\* error whenever at least one of them fails.
C3_OkIffBothOk ==
    pc = "done" =>
        /\ ret = Ok <=> (posix_ret = Ok /\ machine_ret = Ok)
        /\ (posix_ret.tag = "Err" \/ machine_ret.tag = "Err") => ret.tag = "Err"

C3_Witness ==
    /\ pc = "done"
    /\ posix_ret = Ok
    /\ machine_ret = Ok
    /\ ret = Ok

\* C4: the machine check runs after the version check whatever the version
\* check returned: once check() is past it, the hardware-model query has
\* been made, after the version query, and the machine check has a result.
C4_MachineCheckAlwaysRuns ==
    pc \in {"aggregate", "done"} =>
        /\ queries = <<KERN_OSPRODUCTVERSION, HW_MODEL>>
        /\ sys_model # NotQueried
        /\ machine_ret # None

C4_Witness ==
    /\ pc = "done"
    /\ SysctlFailed(sys_ver)
    /\ IsSysctlErr(posix_ret)
    /\ queries = <<KERN_OSPRODUCTVERSION, HW_MODEL>>
    /\ sys_model.kind = "Value"

\* C5: when the major and the minor component are both integers, the
\* version check fails with NotPosix exactly when major > 14, or major = 14
\* and minor > 3 as numbers, and succeeds otherwise, whatever comes after
\* the minor component.
C5_NotPosixFrom14_4 ==
    (VersionReported /\ HasMinor /\ IsIntegerText(Major) /\ IsIntegerText(Minor))
        => posix_ret =
             IF \/ IntegerAbove(Major, 14)
                \/ Denotes(Major, 14) /\ IntegerAbove(Minor, 3)
             THEN Err(NotPosix)
             ELSE Ok

\* 14.11: above 3 as a number, below "3" as text
C5_Witness ==
    /\ VersionReported
    /\ sys_ver.val = <<"1", "4", ".", "1", "1">>
    /\ posix_ret = Err(NotPosix)

\* C6: when the major component is an integer <= 13 the version check
\* succeeds, whatever follows the major component.
C6_MajorAtMost13Passes ==
    (VersionReported /\ IntegerAtMost(Major, 13)) => posix_ret = Ok

C6_Witness ==
    /\ VersionReported
    /\ Denotes(Major, 13)
    /\ HasMinor
    /\ ~IsIntegerText(Minor)
    /\ posix_ret = Ok

\* C7 as stated: when any dot-separated component fails to parse as a
\* non-negative integer, the version check fails with ParseOsVersion.
C7_AnyBadComponentFails ==
    (/\ VersionReported
     /\ \E k \in 1..ComponentCount(sys_ver.val) :
            ~IsIntegerText(ComponentAt(sys_ver.val, k)))
        => posix_ret = Err(ParseOsVersion)

\* C7 as amended: when the major component fails to parse as a non-negative
\* integer, or the major component is 14 and the minor component is present
\* and fails to parse, the version check fails with ParseOsVersion.
C7_InspectedBadComponentFails ==
    (/\ VersionReported
     /\ \/ ~IsIntegerText(Major)
        \/ Denotes(Major, 14) /\ HasMinor /\ ~IsIntegerText(Minor))
        => posix_ret = Err(ParseOsVersion)

C7_Witness ==
    /\ VersionReported
    /\ Denotes(Major, 14)
    /\ HasMinor
    /\ ~IsIntegerText(Minor)
    /\ posix_ret = Err(ParseOsVersion)

\* C8: a non-empty version string all of whose components are integers (a
\* bare major 14 included) yields success or NotPosix, never ParseOsVersion.
C8_ParseErrorOnlyForBadText ==
    (/\ VersionReported
     /\ sys_ver.val # <<>>
     /\ \A k \in 1..ComponentCount(sys_ver.val) :
            IsIntegerText(ComponentAt(sys_ver.val, k)))
        => posix_ret \in {Ok, Err(NotPosix)}

\* C9: the machine check fails with BadMacModel exactly when the reported
\* hardware model is the string "MacBookPro16,1", and succeeds for every
\* other reported string.
C9_ExactDenylistMatch ==
    pc \in {"aggregate", "done"} =>
        /\ machine_ret = Err(BadMacModel)
             <=> (sys_model.kind = "Value" /\ sys_model.val = "MacBookPro16,1")
        /\ (sys_model.kind = "Value" /\ sys_model.val # "MacBookPro16,1")
             => machine_ret = Ok

C9_Witness ==
    /\ pc \in {"aggregate", "done"}
    /\ sys_model = Value("MacBookPro16.1")
    /\ machine_ret = Ok

\* C10: a sub-check whose query fails returns Sysctl wrapping the system
\* error, having queried once; a sub-check returns Sysctl only when its own
\* query failed.
C10_SysctlErrorPropagates ==
    /\ pc # "check_posix" =>
         /\ SysctlFailed(sys_ver) => posix_ret = Err(Sysctl(sys_ver.err))
         /\ IsSysctlErr(posix_ret) => SysctlFailed(sys_ver)
         /\ QueryCount(KERN_OSPRODUCTVERSION) = 1
    /\ pc \in {"aggregate", "done"} =>
         /\ SysctlFailed(sys_model) => machine_ret = Err(Sysctl(sys_model.err))
         /\ IsSysctlErr(machine_ret) => SysctlFailed(sys_model)
         /\ QueryCount(HW_MODEL) = 1

C10_Witness ==
    /\ pc = "done"
    /\ sys_ver = NewFailed("NotFound")
    /\ sys_model = ValueFailed("IoError")
    /\ posix_ret = Err(Sysctl("NotFound"))
    /\ machine_ret = Err(Sysctl("IoError"))

====
